---- MODULE Spec2Model ----
(***************************************************************************)
(* A model of photo_mapper.py: EXIF GPS extraction (tag-dictionary path    *)
(* and raw-bytes path), the sexagesimal conversion, the directory scan of  *)
(* main with its counters, and the KML builder with its escaping.          *)
(*                                                                         *)
(* Python floats are modelled as exact fixed-point numbers, integers in    *)
(* units of 1/Scale; rounding is not modelled.  Strings that the program   *)
(* edits character by character are sequences of one-character strings.    *)
(* A Python exception leaving a function is the value Raise.               *)
(***************************************************************************)
EXTENDS Integers, Sequences, FiniteSets, TLC

VARIABLES
    have_piexif,       \* module flag: piexif could be imported
    have_pillow_heif,  \* module flag: pillow_heif could be imported
    pc,                \* where main is: "args", "walk", "exit"
    total, with_gps, skipped,   \* the scan counters of main
    placemarks,        \* the placemark sequence of main
    stderr, stdout,    \* the lines printed so far
    exitCode,          \* main's return value, -1 while running
    writeAttempted,    \* out_path.write_text was called
    written,           \* ... and returned normally
    kml,               \* the text handed to write_text
    folder,            \* the name of the folder being scanned
    log,               \* history: every file the walk has yielded
    last,              \* history: what happened inside the last iteration
    fpc, arg, res      \* a single call of a pure function: position, input, result

vars == <<have_piexif, have_pillow_heif, pc, total, with_gps, skipped,
          placemarks, stderr, stdout, exitCode, writeAttempted, written,
          kml, folder, log, last, fpc, arg, res>>

scanVars == <<pc, total, with_gps, skipped, placemarks, stderr, stdout,
              exitCode, writeAttempted, written, kml, folder, log, last>>

fnVars == <<fpc, arg, res>>

(***************************************************************************)
(* Bounds of the model.                                                    *)
(***************************************************************************)
MaxFiles == 2   \* files the walk yields
MaxLen   == 4   \* length of a string handed to xml_escape
MaxDen   == 2   \* largest denominator of a rational component

(***************************************************************************)
(* Python values.  A float is a whole number v of units of 1/Scale; the    *)
(* scale makes every division the model performs exact.                    *)
(***************************************************************************)
Scale == 3600 * 6

None  == [tag |-> "None",  v |-> 0]
Raise == [tag |-> "Raise", v |-> 0]
Flt(v) == [tag |-> "float", v |-> v]

\* an except clause that returns None
Catch(r) == IF r = Raise THEN None ELSE r

(***************************************************************************)
(* A component handed to rational_to_float:                                *)
(*   kind "tuple"    the tuple (num, den); num and den are scalars         *)
(*   kind "rational" an object with .numerator and .denominator            *)
(*   kind "number"   a plain number num                                    *)
(*   kind "other"    anything else (None, a str, a tuple of another length)*)
(* A scalar is [t |-> "int", v |-> i], or a non-number: [t |-> "str"]      *)
(* (truthy, float() raises) or [t |-> "none"] (falsy, float() raises).     *)
(***************************************************************************)
IntS(i) == [t |-> "int", v |-> i]
StrS  == [t |-> "str", v |-> 0]
NoneS == [t |-> "none", v |-> 0]

Truthy(s) == IF s.t = "int" THEN s.v # 0 ELSE s.t = "str"

\* float(s) of a scalar
PyFloat(s) == IF s.t = "int" THEN Flt(s.v * Scale) ELSE Raise

\* x / y in units, for y > 0: (x * Scale) \div y, computed without leaving
\* the 32-bit range
DivUnits(x, y) == (x \div y) * Scale + (((x % y) * Scale) \div y)

\* a / b of two floats (or Raise): ZeroDivisionError when b = 0.0
PyDiv(a, b) ==
    IF a = Raise \/ b = Raise THEN Raise
    ELSE IF b.v = 0 THEN Raise
    ELSE IF b.v > 0 THEN Flt(DivUnits(a.v, b.v))
    ELSE Flt(DivUnits(-a.v, -b.v))

Tuple2(num, den) == [kind |-> "tuple", num |-> num, den |-> den]
Rational(n, d) == [kind |-> "rational", num |-> IntS(n), den |-> IntS(d)]
Number(n) == [kind |-> "number", num |-> IntS(n), den |-> IntS(1)]
Other == [kind |-> "other", num |-> NoneS, den |-> NoneS]

\* the try block of rational_to_float
rational_to_float_body(x) ==
    IF x.kind \in {"rational", "tuple"}
    THEN IF Truthy(x.den) THEN PyDiv(PyFloat(x.num), PyFloat(x.den))
                          ELSE PyFloat(x.num)
    ELSE IF x.kind = "number" THEN PyFloat(x.num)
    ELSE Raise

rational_to_float(x) == Catch(rational_to_float_body(x))

(***************************************************************************)
(* A reference value: absent (None), a str, a bytes, or an int.  For str   *)
(* s is the text; for bytes s is what decode("ascii", "ignore") gives.     *)
(***************************************************************************)
NoRef == [kind |-> "absent", s |-> ""]
StrRef(s) == [kind |-> "str", s |-> s]
BytesRef(s) == [kind |-> "bytes", s |-> s]
IntRef == [kind |-> "int", s |-> ""]
RaiseRef == [kind |-> "Raise", s |-> ""]

\* ref in ("S", "W")
RefIsSouthOrWest(ref) == ref.kind = "str" /\ ref.s \in {"S", "W"}

(***************************************************************************)
(* The dms argument: None, a sequence of components, or a number (which    *)
(* is truthy and has no len()).                                            *)
(***************************************************************************)
NoDms == [kind |-> "None", items |-> <<>>]
DmsSeq(items) == [kind |-> "seq", items |-> items]
DmsScalar == [kind |-> "scalar", items |-> <<>>]

\* Degrees with the sign flipped for "S" only
Degrees_southOnly(d, m, s, ref) ==
    IF d = None \/ m = None \/ s = None THEN None
    ELSE IF ref.kind = "str" /\ ref.s = "S"
         THEN Flt(-(d.v + (m.v \div 60) + (s.v \div 3600)))
         ELSE Flt(d.v + (m.v \div 60) + (s.v \div 3600))

\* dms_to_deg once d, m and s are converted
Degrees(d, m, s, ref) ==
    IF d = None \/ m = None \/ s = None THEN None
    ELSE IF RefIsSouthOrWest(ref)
         THEN Flt(-(d.v + (m.v \div 60) + (s.v \div 3600)))
         ELSE Flt(d.v + (m.v \div 60) + (s.v \div 3600))

\* the try block of dms_to_deg
dms_to_deg_body(dms, ref) ==
    IF dms.kind = "None" \/ (dms.kind = "seq" /\ Len(dms.items) = 0) THEN None
    ELSE IF dms.kind = "scalar" THEN Raise          \* len() of a number
    ELSE IF Len(dms.items) # 3 THEN None
    ELSE Degrees(rational_to_float(dms.items[1]), rational_to_float(dms.items[2]),
                 rational_to_float(dms.items[3]), ref)

dms_to_deg(dms, ref) == Catch(dms_to_deg_body(dms, ref))

(***************************************************************************)
(* A GPS IFD: the entries the extractors read.  lat and lon are dms        *)
(* arguments (NoDms when the key is missing), latRef and lonRef reference  *)
(* values, hasAlt says whether GPSAltitude is a key, alt is its value and  *)
(* altRef is GPSAltitudeRef: "absent", "int0", "int1" or "other" (a value  *)
(* that is neither 0 nor 1).                                               *)
(***************************************************************************)
Gps(lat, latRef, lon, lonRef, hasAlt, alt, altRef) ==
    [lat |-> lat, latRef |-> latRef, lon |-> lon, lonRef |-> lonRef,
     hasAlt |-> hasAlt, alt |-> alt, altRef |-> altRef]

EmptyGps == Gps(NoDms, NoRef, NoDms, NoRef, FALSE, Other, "absent")

\* a result of an extractor: None, Raise, or the tuple (lat, lon, alt)
NoGps    == [tag |-> "None",  lat |-> None, lon |-> None, alt |-> None]
RaiseGps == [tag |-> "Raise", lat |-> None, lon |-> None, alt |-> None]
Coord(lat, lon, alt) == [tag |-> "gps", lat |-> lat, lon |-> lon, alt |-> alt]

\* an except clause that returns None, for an extractor
CatchGps(r) == IF r = RaiseGps THEN NoGps ELSE r

\* gps.get("GPSAltitudeRef", 0) == 1
AltRefIsOne(altRef) == altRef = "int1"

(***************************************************************************)
(* An EXIF tag dictionary: "empty" ({}), "noGPS" (tags, none of them       *)
(* GPSInfo), "gpsNotDict" (GPSInfo holds something that is no dict),       *)
(* "gps" (GPSInfo holds the dict gps).                                     *)
(***************************************************************************)
ExifDict(kind, g) == [kind |-> kind, gps |-> g]
EmptyExif == ExifDict("empty", EmptyGps)

\* CoordOrNone failing when the altitude does not convert
CoordOrNone_altRequired(lat, lon, hasAlt, a, altRef) ==
    IF lat = None \/ lon = None \/ (hasAlt /\ a = None) THEN NoGps
    ELSE Coord(lat, lon,
               IF hasAlt /\ a # None
               THEN (IF AltRefIsOne(altRef) THEN Flt(-a.v) ELSE a)
               ELSE None)

\* the end of both extractors: a is rational_to_float of the altitude, used
\* only when GPSAltitude is a key
CoordOrNone(lat, lon, hasAlt, a, altRef) ==
    IF lat = None \/ lon = None THEN NoGps
    ELSE Coord(lat, lon,
               IF hasAlt /\ a # None
               THEN (IF AltRefIsOne(altRef) THEN Flt(-a.v) ELSE a)
               ELSE None)

extract_gps_from_pil_exif(exif) ==
    IF exif.kind = "empty" THEN NoGps
    ELSE IF exif.kind = "noGPS" THEN NoGps
    ELSE IF exif.kind = "gpsNotDict" THEN NoGps
    ELSE CoordOrNone(dms_to_deg(exif.gps.lat, exif.gps.latRef),
                   dms_to_deg(exif.gps.lon, exif.gps.lonRef),
                   exif.gps.hasAlt, rational_to_float(exif.gps.alt), exif.gps.altRef)

(***************************************************************************)
(* A raw EXIF blob: "None", "empty" (b""), "corrupt" (piexif.load raises), *)
(* "exif" (piexif.load gives a GPS IFD gps, possibly an empty one).        *)
(***************************************************************************)
Blob(kind, g) == [kind |-> kind, gps |-> g]
NoBlob == Blob("None", EmptyGps)

BlobTruthy(b) == b.kind \in {"corrupt", "exif"}

\* gps_ifd.get(key, b"").decode("ascii", "ignore") or None
DecodeRef(ref) ==
    IF ref.kind = "absent" THEN NoRef
    ELSE IF ref.kind = "bytes" THEN (IF ref.s = "" THEN NoRef ELSE StrRef(ref.s))
    ELSE RaiseRef                            \* no .decode on a str or an int

\* the end of the try block of extract_gps_from_piexif_bytes, once both
\* references are decoded
BytesResult(g, latRef, lonRef) ==
    IF latRef = RaiseRef \/ lonRef = RaiseRef THEN RaiseGps
    ELSE CoordOrNone(dms_to_deg(g.lat, latRef), dms_to_deg(g.lon, lonRef),
                   g.hasAlt, rational_to_float(g.alt), g.altRef)

\* the try block of extract_gps_from_piexif_bytes
extract_gps_from_piexif_bytes_body(exif_bytes) ==
    IF exif_bytes.kind = "corrupt" THEN RaiseGps
    ELSE IF exif_bytes.gps = EmptyGps THEN NoGps
    ELSE BytesResult(exif_bytes.gps, DecodeRef(exif_bytes.gps.latRef),
                     DecodeRef(exif_bytes.gps.lonRef))

extract_gps_from_piexif_bytes(exif_bytes, env) ==
    IF ~(env.have_piexif /\ BlobTruthy(exif_bytes)) THEN NoGps
    ELSE CatchGps(extract_gps_from_piexif_bytes_body(exif_bytes))

(***************************************************************************)
(* Text: a sequence of one-character strings.                              *)
(***************************************************************************)
LowerChar(c) ==
    CASE c = "J" -> "j" [] c = "P" -> "p" [] c = "G" -> "g" [] c = "E" -> "e"
      [] c = "H" -> "h" [] c = "I" -> "i" [] c = "C" -> "c" [] c = "F" -> "f"
      [] c = "T" -> "t" [] OTHER -> c

\* str.lower()
Lower(s) == [i \in 1..Len(s) |-> LowerChar(s[i])]

\* PurePath.suffix: from the last dot of the name, unless the name starts
\* or ends with that dot
Suffix(name) ==
    LET dots == {i \in 1..Len(name) : name[i] = "."}
        i == CHOOSE k \in dots : \A j \in dots : j <= k
    IN  IF dots = {} THEN <<>>
        ELSE IF i = 1 \/ i = Len(name) THEN <<>>
        ELSE SubSeq(name, i, Len(name))

IMG_EXTS == { <<".", "j", "p", "g">>, <<".", "j", "p", "e", "g">>,
              <<".", "t", "i", "f">>, <<".", "t", "i", "f", "f">>,
              <<".", "h", "e", "i", "c">>, <<".", "h", "e", "i", "f">> }

HEIF_EXTS == { <<".", "h", "e", "i", "c">>, <<".", "h", "e", "i", "f">> }

(***************************************************************************)
(* A file the walk yields, with what the decoding libraries give for it:   *)
(*   root, fname   the directory (relative to the folder) and the name     *)
(*   openRaises    Image.open or getexif raises                            *)
(*   exif          im.getexif()                                            *)
(*   infoExif      im.info.get("exif")                                     *)
(*   heifRaises    pillow_heif.open_heif raises                            *)
(*   metadata      h.metadata: "None" or a list of blocks [type, data]     *)
(***************************************************************************)
File(root, fname, openRaises, exif, infoExif, heifRaises, metadata) ==
    [root |-> root, fname |-> fname, openRaises |-> openRaises, exif |-> exif,
     infoExif |-> infoExif, heifRaises |-> heifRaises, metadata |-> metadata]

Block(type, data) == [type |-> type, data |-> data]

\* FirstExifBlock taking the first block with data whatever its type
FirstExifBlock_anyType(blocks, exif_bytes) ==
    LET hits == {i \in 1..Len(blocks) : BlobTruthy(blocks[i].data)}
    IN  IF hits = {} THEN exif_bytes
        ELSE blocks[CHOOSE i \in hits : \A j \in hits : i <= j].data

\* the loop over h.metadata or []: the data of the first block of type
\* "Exif" with data, or the blob unchanged
FirstExifBlock(blocks, exif_bytes) ==
    LET hits == {i \in 1..Len(blocks) :
                    blocks[i].type = "Exif" /\ BlobTruthy(blocks[i].data)}
    IN  IF hits = {} THEN exif_bytes
        ELSE blocks[CHOOSE i \in hits : \A j \in hits : i <= j].data

(***************************************************************************)
(* What get_exif_any returns: a tag dictionary (raw = FALSE) or the        *)
(* sentinel dictionary holding bytes (raw = TRUE).  The fields infoRead,   *)
(* heifScanned and caught record what the call did: whether it read        *)
(* im.info, whether it scanned the HEIF metadata blocks and whether its    *)
(* except clause ran.                                                      *)
(***************************************************************************)
Resolved(tag, raw, exif, bytes, infoRead, heifScanned, caught) ==
    [tag |-> tag, raw |-> raw, exif |-> exif, bytes |-> bytes,
     infoRead |-> infoRead, heifScanned |-> heifScanned, caught |-> caught]

\* the try block of get_exif_any without the return of the tag dictionary
\* that already yields a coordinate
get_exif_any_body_noFastPath(f, env) ==
    IF f.openRaises
    THEN Resolved("Raise", FALSE, EmptyExif, NoBlob, FALSE, FALSE, FALSE)
    ELSE LET scan == ~BlobTruthy(f.infoExif) /\ env.have_pillow_heif
                        /\ Lower(Suffix(f.fname)) \in HEIF_EXTS
             exif_bytes ==
                 IF scan /\ ~f.heifRaises /\ f.metadata.kind = "list"
                 THEN FirstExifBlock(f.metadata.blocks, f.infoExif)
                 ELSE f.infoExif
         IN  IF BlobTruthy(exif_bytes)
             THEN Resolved("ok", TRUE, EmptyExif, exif_bytes, TRUE, scan, FALSE)
             ELSE Resolved("ok", FALSE, f.exif, NoBlob, TRUE, scan, FALSE)

\* the try block of get_exif_any
get_exif_any_body(f, env) ==
    IF f.openRaises
    THEN Resolved("Raise", FALSE, EmptyExif, NoBlob, FALSE, FALSE, FALSE)
    ELSE IF extract_gps_from_pil_exif(f.exif) # NoGps
    THEN Resolved("ok", FALSE, f.exif, NoBlob, FALSE, FALSE, FALSE)
    ELSE LET scan == ~BlobTruthy(f.infoExif) /\ env.have_pillow_heif
                        /\ Lower(Suffix(f.fname)) \in HEIF_EXTS
             exif_bytes ==
                 IF scan /\ ~f.heifRaises /\ f.metadata.kind = "list"
                 THEN FirstExifBlock(f.metadata.blocks, f.infoExif)
                 ELSE f.infoExif
         IN  IF BlobTruthy(exif_bytes)
             THEN Resolved("ok", TRUE, EmptyExif, exif_bytes, TRUE, scan, FALSE)
             ELSE Resolved("ok", FALSE, f.exif, NoBlob, TRUE, scan, FALSE)

\* the except clause of get_exif_any: return {}
CatchResolved(r) ==
    IF r.tag = "Raise"
    THEN Resolved("ok", FALSE, EmptyExif, NoBlob, r.infoRead, r.heifScanned, TRUE)
    ELSE r

get_exif_any(f, env) == CatchResolved(get_exif_any_body(f, env))

(***************************************************************************)
(* The KML builder.                                                        *)
(***************************************************************************)
\* str.replace(old, new) for a one-character old
RECURSIVE Replace(_, _, _)
Replace(s, old, new) ==
    IF s = <<>> THEN <<>>
    ELSE (IF Head(s) = old THEN new ELSE <<Head(s)>>) \o Replace(Tail(s), old, new)

AMP  == <<"&", "a", "m", "p", ";">>
LT   == <<"&", "l", "t", ";">>
GT   == <<"&", "g", "t", ";">>
QUOT == <<"&", "q", "u", "o", "t", ";">>
APOS == <<"&", "a", "p", "o", "s", ";">>

\* xml_escape replacing & last
xml_escape_ampLast(s) ==
    Replace(Replace(Replace(Replace(Replace(s, "<", LT), ">", GT), "\"", QUOT),
                    "'", APOS), "&", AMP)

xml_escape(s) ==
    Replace(Replace(Replace(Replace(Replace(s, "&", AMP), "<", LT), ">", GT),
                    "\"", QUOT), "'", APOS)

Placemark(name, lat, lon, alt, desc) ==
    [name |-> name, lat |-> lat, lon |-> lon, alt |-> alt, desc |-> desc]

\* one <Placemark> element: its text nodes and its coordinates
PlacemarkElement(pm) ==
    LET desc == xml_escape(pm.desc)
    IN  [name |-> xml_escape(pm.name),
         hasDescription |-> desc # <<>>,
         description |-> desc,
         coordinates |-> IF pm.alt # None THEN <<pm.lon, pm.lat, pm.alt>>
                         ELSE <<pm.lon, pm.lat>>]

\* the document: the <name> of the Document and the Placemark elements
build_kml(pms, doc_name) ==
    [name |-> xml_escape(doc_name),
     body |-> [i \in 1..Len(pms) |-> PlacemarkElement(pms[i])]]

NoKml == [name |-> <<>>, body |-> <<>>]

(***************************************************************************)
(* main.                                                                   *)
(***************************************************************************)
\* a printed line; the fields a kind does not use are empty or 0
Line(kind, path, t, g, s) ==
    [kind |-> kind, path |-> path, total |-> t, with_gps |-> g, skipped |-> s]

\* p = Path(root) / fname, as text relative to the folder
RelPath(f) == IF f.root = <<>> THEN f.fname ELSE f.root \o <<"/">> \o f.fname

\* p.suffix.lower() in IMG_EXTS
IsCandidate(f) == Lower(Suffix(f.fname)) \in IMG_EXTS

\* f"{folder.name} (Geotagged Images)"
DocName(folderName) ==
    folderName \o <<" ", "(", "G", "e", "o", "t", "a", "g", "g", "e", "d", " ",
                    "I", "m", "a", "g", "e", "s", ")">>

(***************************************************************************)
(* The try block of the loop body, up to the value of gps: tag is "gps",   *)
(* "None" or "Raise" (an exception reaches the except clause of main).     *)
(* resolved is what get_exif_any returned; pilCalled and bytesCalled say   *)
(* which extractor main called, bytesRaised whether the try block of       *)
(* extract_gps_from_piexif_bytes raised.                                   *)
(***************************************************************************)
main_try(f, env) ==
    LET r == get_exif_any(f, env)
        pilCalled == r.tag = "ok" /\ ~r.raw
        gps1 == IF pilCalled THEN extract_gps_from_pil_exif(r.exif) ELSE NoGps
        bytesCalled == r.tag = "ok" /\ gps1 = NoGps /\ r.raw
        gps == IF bytesCalled THEN extract_gps_from_piexif_bytes(r.bytes, env) ELSE gps1
    IN  [tag |-> IF r.tag = "Raise" THEN "Raise" ELSE gps.tag,
         gps |-> gps, resolved |-> r,
         pilCalled |-> pilCalled, bytesCalled |-> bytesCalled,
         bytesRaised |-> bytesCalled /\ env.have_piexif
                           /\ extract_gps_from_piexif_bytes_body(r.bytes) = RaiseGps]

\* CountersAfter without with_gps += 1
CountersAfter_noWithGps(tag, c) ==
    [total |-> c.total + 1,
     with_gps |-> c.with_gps,
     skipped |-> IF tag = "gps" THEN c.skipped ELSE c.skipped + 1]

\* the counters after one candidate file
CountersAfter(tag, c) ==
    [total |-> c.total + 1,
     with_gps |-> IF tag = "gps" THEN c.with_gps + 1 ELSE c.with_gps,
     skipped |-> IF tag = "gps" THEN c.skipped ELSE c.skipped + 1]

\* PlacemarksAfter inserting at the front
PlacemarksAfter_prepend(t, f, pms) ==
    IF t.tag = "gps"
    THEN <<Placemark(f.fname, t.gps.lat, t.gps.lon, t.gps.alt, RelPath(f))>> \o pms
    ELSE pms

\* placemarks after one candidate file
PlacemarksAfter(t, f, pms) ==
    IF t.tag = "gps"
    THEN Append(pms, Placemark(f.fname, t.gps.lat, t.gps.lon, t.gps.alt, RelPath(f)))
    ELSE pms

\* stderr after one candidate file
StderrAfter(tag, f, err) ==
    IF tag = "Raise" THEN Append(err, Line("WARN", RelPath(f), 0, 0, 0)) ELSE err

(***************************************************************************)
(* The inputs of the scan: the files a walk can yield.                     *)
(***************************************************************************)
T(n, d) == Tuple2(IntS(n), IntS(d))
Dms(d, m, s) == DmsSeq(<<T(d, 1), T(m, 1), T(s, 1)>>)

\* GPS IFDs as Pillow gives them (references are str)
PilA == Gps(Dms(10, 30, 0), StrRef("N"), Dms(20, 0, 0), StrRef("W"), FALSE, Other, "absent")
PilB == Gps(Dms(200, 0, 0), StrRef("N"), Dms(20, 0, 0), StrRef("E"), TRUE, T(5, 1), "int1")
PilNoLon == Gps(Dms(10, 30, 0), StrRef("N"), NoDms, NoRef, TRUE, T(5, 1), "int0")

\* GPS IFDs as piexif gives them (references are bytes, or an int when the
\* file declares the tag with a numeric type)
RawA == Gps(Dms(10, 30, 0), BytesRef("S"), Dms(20, 0, 0), BytesRef("E"), TRUE, Other, "absent")
RawB == Gps(Dms(30, 0, 0), BytesRef("N"), Dms(10, 0, 0), BytesRef("W"), TRUE, T(5, 2), "int0")
RawLatOnly == Gps(Dms(10, 30, 0), BytesRef("N"), NoDms, NoRef, FALSE, Other, "absent")
RawIntRef == Gps(Dms(10, 30, 0), IntRef, Dms(20, 0, 0), BytesRef("E"), FALSE, Other, "absent")

NoMeta == [kind |-> "None", blocks |-> <<>>]
MetaB == [kind |-> "list",
          blocks |-> <<Block("XMP", Blob("corrupt", EmptyGps)), Block("Exif", Blob("exif", RawB))>>]
MetaLatOnly == [kind |-> "list",
                blocks |-> <<Block("Exif", Blob("empty", EmptyGps)),
                             Block("Exif", Blob("exif", RawLatOnly))>>]

JpgName  == <<"a", ".", "j", "p", "g">>
HeicName == <<"b", "&", ".", "H", "E", "I", "C">>
TxtName  == <<"n", ".", "t", "x", "t">>
SubDir   == <<"d">>

NoFile == File(<<>>, <<>>, FALSE, EmptyExif, NoBlob, FALSE, NoMeta)

\* dictionaries that yield a coordinate, and those that do not
CoordExifs == <<ExifDict("gps", PilA), ExifDict("gps", PilB)>>
OtherExifs == <<EmptyExif, ExifDict("noGPS", EmptyGps), ExifDict("gpsNotDict", EmptyGps),
                ExifDict("gps", PilNoLon)>>

ScanBlobs == <<NoBlob, Blob("corrupt", EmptyGps), Blob("exif", RawA),
               Blob("exif", RawLatOnly), Blob("exif", RawIntRef)>>

\* (heifRaises, metadata)
ScanHeif == <<<<FALSE, NoMeta>>, <<FALSE, MetaB>>, <<TRUE, MetaB>>, <<FALSE, MetaLatOnly>>>>

\* the files root/fname that open, with every dictionary of es, every blob
\* of bs and every (heifRaises, metadata) of hs
Opened(root, fname, es, bs, hs) ==
    [k \in 1..(Len(es) * Len(bs) * Len(hs)) |->
        LET e == es[((k - 1) \div (Len(bs) * Len(hs))) + 1]
            b == bs[(((k - 1) \div Len(hs)) % Len(bs)) + 1]
            h == hs[((k - 1) % Len(hs)) + 1]
        IN  File(root, fname, FALSE, e, b, h[1], h[2])]

\* the files, numbered
FileSeq ==
    << File(<<>>, JpgName, TRUE, EmptyExif, NoBlob, FALSE, NoMeta),
       File(SubDir, HeicName, TRUE, EmptyExif, NoBlob, FALSE, NoMeta),
       File(<<>>, TxtName, FALSE, ExifDict("gps", PilA), NoBlob, FALSE, NoMeta) >>
    \o Opened(<<>>, JpgName, CoordExifs, SubSeq(ScanBlobs, 1, 3), SubSeq(ScanHeif, 1, 2))
    \o Opened(SubDir, HeicName, CoordExifs, SubSeq(ScanBlobs, 1, 3), SubSeq(ScanHeif, 1, 2))
    \o Opened(<<>>, JpgName, OtherExifs, ScanBlobs, SubSeq(ScanHeif, 1, 2))
    \o Opened(SubDir, HeicName, OtherExifs, ScanBlobs, ScanHeif)

FileNos == 1..Len(FileSeq)
Files == {FileSeq[i] : i \in FileNos}

FolderName == <<"R", "&", "D">>

(***************************************************************************)
(* The scan: main as a state machine.                                      *)
(***************************************************************************)
NoTry == [tag |-> "None", gps |-> NoGps,
          resolved |-> Resolved("ok", FALSE, EmptyExif, NoBlob, FALSE, FALSE, FALSE),
          pilCalled |-> FALSE, bytesCalled |-> FALSE, bytesRaised |-> FALSE]

\* the module flags set by the optional imports, every setting of them
EnvSeq == <<[have_piexif |-> FALSE, have_pillow_heif |-> FALSE],
            [have_piexif |-> FALSE, have_pillow_heif |-> TRUE],
            [have_piexif |-> TRUE,  have_pillow_heif |-> FALSE],
            [have_piexif |-> TRUE,  have_pillow_heif |-> TRUE]>>

Env == [have_piexif |-> have_piexif, have_pillow_heif |-> have_pillow_heif]
EnvNo == CHOOSE e \in 1..Len(EnvSeq) : EnvSeq[e] = Env

\* the loop body of main for one file under one setting of the flags:
\* whether the file passes the extension filter, and the try block's result
LoopBodyOf(f, env) ==
    [candidate |-> IsCandidate(f),
     try |-> IF IsCandidate(f) THEN main_try(f, env) ELSE NoTry]

\* ... computed once for every setting and every file
LoopBody ==
    <<>> \o [e \in 1..Len(EnvSeq) |-> <<>> \o [i \in FileNos |-> LoopBodyOf(FileSeq[i], EnvSeq[e])]]

Counters == [total |-> total, with_gps |-> with_gps, skipped |-> skipped]

ScanInit ==
    /\ pc = "args"
    /\ total = 0 /\ with_gps = 0 /\ skipped = 0
    /\ placemarks = <<>>
    /\ stderr = <<>> /\ stdout = <<>>
    /\ exitCode = -1
    /\ writeAttempted = FALSE /\ written = FALSE
    /\ kml = NoKml
    /\ folder = <<>>
    /\ log = <<>>
    /\ last = [fileNo |-> 0, before |-> [total |-> 0, with_gps |-> 0, skipped |-> 0],
               placemarksBefore |-> 0, stderrBefore |-> 0]

FnIdle == fpc = "idle" /\ arg = <<>> /\ res = <<>>

Init ==
    /\ have_piexif \in BOOLEAN
    /\ have_pillow_heif \in BOOLEAN
    /\ ScanInit
    /\ FnIdle

\* folder.exists() and folder.is_dir(), then the initialisation of the scan
CheckFolder(isDir) ==
    /\ pc = "args"
    /\ IF isDir
       THEN /\ pc' = "walk"
            /\ folder' = FolderName
            /\ UNCHANGED <<stderr, exitCode>>
       ELSE /\ pc' = "exit"
            /\ stderr' = Append(stderr, Line("NotAFolder", <<>>, 0, 0, 0))
            /\ exitCode' = 3
            /\ UNCHANGED folder
    /\ UNCHANGED <<total, with_gps, skipped, placemarks, stdout, writeAttempted,
                   written, kml, log, last, have_piexif, have_pillow_heif>>
    /\ UNCHANGED fnVars

\* one iteration of the loop over the files of the walk; i is the number
\* of the file the walk yields
ScanFile(i) ==
    /\ pc = "walk"
    /\ Len(log) < MaxFiles
    /\ LET f == FileSeq[i]
           cand == LoopBody[EnvNo][i].candidate
           t == LoopBody[EnvNo][i].try
           c == IF cand THEN CountersAfter(t.tag, Counters) ELSE Counters
       IN  /\ total' = c.total
           /\ with_gps' = c.with_gps
           /\ skipped' = c.skipped
           /\ placemarks' = IF cand THEN PlacemarksAfter(t, f, placemarks) ELSE placemarks
           /\ stderr' = IF cand THEN StderrAfter(t.tag, f, stderr) ELSE stderr
           /\ log' = Append(log, [path |-> RelPath(f), name |-> f.fname,
                                  candidate |-> cand, gps |-> t.gps])
           /\ last' = [fileNo |-> i, before |-> Counters,
                       placemarksBefore |-> Len(placemarks),
                       stderrBefore |-> Len(stderr)]
    /\ UNCHANGED <<pc, stdout, exitCode, writeAttempted, written, kml, folder,
                   have_piexif, have_pillow_heif>>
    /\ UNCHANGED fnVars

\* the last iteration: whether there was one, its file, whether the file
\* passed the extension filter, and what the try block did
LastValid == last.fileNo # 0
LastFile == FileSeq[last.fileNo]
LastCandidate == LoopBody[EnvNo][last.fileNo].candidate
LastTry == LoopBody[EnvNo][last.fileNo].try

\* ReturnNoGps returning 0
ReturnNoGps_exit0 ==
    /\ pc = "walk"
    /\ placemarks = <<>>
    /\ stderr' = stderr \o <<Line("NoGeotagged", <<>>, 0, 0, 0),
                             Line("Scanned", <<>>, total, with_gps, skipped)>>
    /\ exitCode' = 0
    /\ pc' = "exit"
    /\ UNCHANGED <<total, with_gps, skipped, placemarks, stdout, writeAttempted,
                   written, kml, folder, log, last, have_piexif, have_pillow_heif>>
    /\ UNCHANGED fnVars

\* the walk is over and there is no placemark
ReturnNoGps ==
    /\ pc = "walk"
    /\ placemarks = <<>>
    /\ stderr' = stderr \o <<Line("NoGeotagged", <<>>, 0, 0, 0),
                             Line("Scanned", <<>>, total, with_gps, skipped)>>
    /\ exitCode' = 4
    /\ pc' = "exit"
    /\ UNCHANGED <<total, with_gps, skipped, placemarks, stdout, writeAttempted,
                   written, kml, folder, log, last, have_piexif, have_pillow_heif>>
    /\ UNCHANGED fnVars

\* the walk is over and there are placemarks: build the KML and write it
WriteKml(ok) ==
    /\ pc = "walk"
    /\ placemarks # <<>>
    /\ kml' = build_kml(placemarks, DocName(folder))
    /\ writeAttempted' = TRUE
    /\ written' = ok
    /\ IF ok
       THEN /\ stdout' = stdout \o <<Line("Wrote", <<>>, 0, 0, 0),
                                     Line("Scanned", <<>>, total, with_gps, skipped)>>
            /\ exitCode' = 0
            /\ UNCHANGED stderr
       ELSE /\ stderr' = Append(stderr, Line("FailedWrite", <<>>, 0, 0, 0))
            /\ exitCode' = 5
            /\ UNCHANGED stdout
    /\ pc' = "exit"
    /\ UNCHANGED <<total, with_gps, skipped, placemarks, folder, log, last,
                   have_piexif, have_pillow_heif>>
    /\ UNCHANGED fnVars

Next ==
    \/ \E isDir \in BOOLEAN : CheckFolder(isDir)
    \/ \E i \in FileNos : ScanFile(i)
    \/ ReturnNoGps
    \/ \E ok \in BOOLEAN : WriteKml(ok)

Spec == Init /\ [][Next]_vars

(***************************************************************************)
(* A single call of dms_to_deg or of rational_to_float.                    *)
(***************************************************************************)
Nums == {0, 10, 30}

DmsComps ==
    { T(n, d) : n \in Nums, d \in 0..MaxDen }
    \cup { T(-10, 1), Tuple2(IntS(10), StrS), Tuple2(IntS(10), NoneS),
           Tuple2(StrS, IntS(1)), Tuple2(NoneS, IntS(0)),
           Rational(30, 1), Rational(30, 0), Number(10), Other }

DmsArgs ==
    { NoDms, DmsScalar, DmsSeq(<<>>) }
    \cup { DmsSeq(<<a>>) : a \in DmsComps }
    \cup { DmsSeq(<<a, b>>) : a \in DmsComps, b \in DmsComps }
    \cup { DmsSeq(<<a, b, c>>) : a \in DmsComps, b \in DmsComps, c \in DmsComps }
    \cup { DmsSeq(<<a, b, c, d>>) : a \in {T(10, 1)}, b \in {T(30, 1), Other},
                                    c \in {T(0, 1)}, d \in {T(0, 1), Other} }

DmsRefs == { NoRef, StrRef("N"), StrRef("S"), StrRef("E"), StrRef("W"),
             StrRef("X"), StrRef("s"), BytesRef("S") }

InitDms ==
    /\ have_piexif = TRUE /\ have_pillow_heif = TRUE
    /\ ScanInit
    /\ fpc = "call"
    /\ arg \in [dms : DmsArgs, ref : DmsRefs]
    /\ res = None

CallDmsToDeg ==
    /\ fpc = "call"
    /\ res' = dms_to_deg(arg.dms, arg.ref)
    /\ fpc' = "dms_to_deg"
    /\ UNCHANGED <<arg, scanVars, have_piexif, have_pillow_heif>>

CallRationalToFloat ==
    /\ fpc = "call"
    /\ arg.dms.kind = "seq" /\ Len(arg.dms.items) = 1 /\ arg.ref = NoRef
    /\ res' = rational_to_float(arg.dms.items[1])
    /\ fpc' = "rational_to_float"
    /\ UNCHANGED <<arg, scanVars, have_piexif, have_pillow_heif>>

NextDms == CallDmsToDeg \/ CallRationalToFloat

SpecDms == InitDms /\ [][NextDms]_vars

(***************************************************************************)
(* A single call of one of the two GPS extractors.                         *)
(***************************************************************************)
GpsArgs ==
    { Gps(lat, latRef, lon, lonRef, hasAlt, alt, altRef) :
        lat \in {NoDms, Dms(10, 30, 0), DmsSeq(<<T(10, 1), T(30, 1)>>),
                 DmsSeq(<<T(10, 1), Other, T(0, 1)>>)},
        latRef \in {NoRef, StrRef("N"), StrRef("S"), BytesRef("S"), BytesRef(""), IntRef},
        lon \in {NoDms, Dms(20, 0, 0), DmsScalar},
        lonRef \in {NoRef, StrRef("W"), BytesRef("W"), BytesRef("E")},
        hasAlt \in BOOLEAN,
        alt \in {T(5, 1), T(5, 0), Other},
        altRef \in {"absent", "int0", "int1", "other"} }

ExifKinds == {"empty", "noGPS", "gpsNotDict", "gps"}
BlobKinds == {"None", "empty", "corrupt", "exif"}

InitGps ==
    /\ have_piexif \in BOOLEAN /\ have_pillow_heif = TRUE
    /\ ScanInit
    /\ fpc = "call"
    /\ arg \in [kind : {"gps", "exif"}, gps : GpsArgs]
               \cup [kind : (ExifKinds \cup BlobKinds) \ {"gps", "exif"}, gps : {EmptyGps}]
    /\ res = NoGps

CallExtractPil ==
    /\ fpc = "call"
    /\ arg.kind \in ExifKinds
    /\ res' = extract_gps_from_pil_exif(ExifDict(arg.kind, arg.gps))
    /\ fpc' = "pil"
    /\ UNCHANGED <<arg, scanVars, have_piexif, have_pillow_heif>>

CallExtractBytes ==
    /\ fpc = "call"
    /\ arg.kind \in BlobKinds
    /\ res' = extract_gps_from_piexif_bytes(Blob(arg.kind, arg.gps), Env)
    /\ fpc' = "bytes"
    /\ UNCHANGED <<arg, scanVars, have_piexif, have_pillow_heif>>

NextGps == CallExtractPil \/ CallExtractBytes

SpecGps == InitGps /\ [][NextGps]_vars

(***************************************************************************)
(* A single call of xml_escape or of build_kml.                            *)
(***************************************************************************)
XmlChars == {"&", "<", ">", "\"", "'", "l", "t", ";"}

RECURSIVE Strings(_)
Strings(n) ==
    IF n = 0 THEN {<<>>}
    ELSE LET shorter == Strings(n - 1)
         IN  shorter \cup {Append(s, c) : s \in shorter, c \in XmlChars}

\* the placemarks build_kml is called on: one named s in a directory, one
\* with an empty description
KmlInput(s) ==
    << Placemark(s, Flt(10 * Scale), Flt(-20 * Scale), None, SubDir \o <<"/">> \o s),
       Placemark(s, Flt(30 * Scale), Flt(10 * Scale), Flt(5 * Scale), <<>>) >>

InitXml ==
    /\ have_piexif = TRUE /\ have_pillow_heif = TRUE
    /\ ScanInit
    /\ fpc = "call"
    /\ arg \in Strings(MaxLen)
    /\ res = <<>>

CallXmlEscape ==
    /\ fpc = "call"
    /\ res' = xml_escape(arg)
    /\ fpc' = "xml_escape"
    /\ UNCHANGED <<arg, scanVars, have_piexif, have_pillow_heif>>

CallBuildKml ==
    /\ fpc = "call"
    /\ res' = build_kml(KmlInput(arg), DocName(arg))
    /\ fpc' = "build_kml"
    /\ UNCHANGED <<arg, scanVars, have_piexif, have_pillow_heif>>

NextXml == CallXmlEscape \/ CallBuildKml

SpecXml == InitXml /\ [][NextXml]_vars

(***************************************************************************)
(* Properties of dms_to_deg and rational_to_float.                         *)
(***************************************************************************)
\* the value n/d of a component that converts, in units, and whether the
\* model represents it exactly
CompDen(x) == IF x.kind = "number" \/ ~Truthy(x.den) THEN 1 ELSE x.den.v
CompUnits(x) == (x.num.v * Scale) \div CompDen(x)
CompExact(x) == (x.num.v * Scale) % CompDen(x) = 0

IsTriple(dms) == dms.kind = "seq" /\ Len(dms.items) = 3
Unconvertible(dms) == \E i \in 1..3 : rational_to_float(dms.items[i]) = None

\* degrees + minutes/60 + seconds/3600, in units
SexagesimalUnits(dms) ==
    CompUnits(dms.items[1]) + (CompUnits(dms.items[2]) \div 60)
        + (CompUnits(dms.items[3]) \div 3600)

SexagesimalExact(dms) ==
    /\ \A i \in 1..3 : CompExact(dms.items[i])
    /\ CompUnits(dms.items[2]) % 60 = 0
    /\ CompUnits(dms.items[3]) % 3600 = 0

\* C9: dms_to_deg never raises; it returns None exactly when the input is
\* not a sequence of 3 components or a component does not convert; otherwise
\* it returns degrees + minutes/60 + seconds/3600, negated if and only if
\* the reference is the str "S" or "W".  A component with a zero
\* denominator converts to its numerator.
C9_DmsToDeg ==
    /\ fpc = "dms_to_deg" =>
          /\ res # Raise
          /\ (res = None) <=> (~IsTriple(arg.dms) \/ Unconvertible(arg.dms))
          /\ res # None =>
                /\ SexagesimalExact(arg.dms)
                /\ res = Flt(IF arg.ref \in {StrRef("S"), StrRef("W")}
                             THEN -SexagesimalUnits(arg.dms)
                             ELSE SexagesimalUnits(arg.dms))
    /\ fpc = "rational_to_float" =>
          LET x == arg.dms.items[1]
          IN  /\ res # Raise
              /\ (x.kind \in {"tuple", "rational"} /\ x.num.t = "int" /\ x.den = IntS(0))
                    => res = Flt(x.num.v * Scale)

\* 10 deg 30' 0" with "S" gives -10.5
C9_Witness ==
    /\ fpc = "dms_to_deg"
    /\ arg.dms = Dms(10, 30, 0) /\ arg.ref = StrRef("S")
    /\ 2 * res.v = -21 * Scale

(***************************************************************************)
(* Properties of the two extractors.                                       *)
(***************************************************************************)
\* a triple converts whatever its reference
TripleConverts(dms) == dms_to_deg(dms, NoRef) # None

\* the altitude of a result: absent unless GPSAltitude is there and
\* converts; then its magnitude, negated exactly when GPSAltitudeRef is 1
ExpectedAlt(g) ==
    IF g.hasAlt /\ rational_to_float(g.alt) # None
    THEN (IF g.altRef = "int1" THEN Flt(-rational_to_float(g.alt).v)
          ELSE rational_to_float(g.alt))
    ELSE None

\* the raw-bytes path decodes a reference that is a bytes or missing
RefDecodes(ref) == ref.kind \in {"absent", "bytes"}

Entities == {AMP, LT, GT, QUOT, APOS}

StartsWith(s, e) == Len(s) >= Len(e) /\ SubSeq(s, 1, Len(e)) = e
Drop(s, n) == SubSeq(s, n + 1, Len(s))

\* decoding the five entities, left to right
RECURSIVE Unescape(_)
Unescape(s) ==
    IF s = <<>> THEN <<>>
    ELSE IF StartsWith(s, AMP)  THEN <<"&">>  \o Unescape(Drop(s, Len(AMP)))
    ELSE IF StartsWith(s, LT)   THEN <<"<">>  \o Unescape(Drop(s, Len(LT)))
    ELSE IF StartsWith(s, GT)   THEN <<">">>  \o Unescape(Drop(s, Len(GT)))
    ELSE IF StartsWith(s, QUOT) THEN <<"\"">> \o Unescape(Drop(s, Len(QUOT)))
    ELSE IF StartsWith(s, APOS) THEN <<"'">>  \o Unescape(Drop(s, Len(APOS)))
    ELSE <<Head(s)>> \o Unescape(Tail(s))

\* each character escaped on its own
EscapeChar(c) ==
    CASE c = "&" -> AMP [] c = "<" -> LT [] c = ">" -> GT
      [] c = "\"" -> QUOT [] c = "'" -> APOS [] OTHER -> <<c>>

RECURSIVE EscapeEach(_)
EscapeEach(s) == IF s = <<>> THEN <<>> ELSE EscapeChar(Head(s)) \o EscapeEach(Tail(s))

\* out is a well-formed escaping of the text in
EscapedText(in, out) ==
    /\ \A i \in 1..Len(out) : out[i] \notin {"<", ">", "\"", "'"}
    /\ \A i \in 1..Len(out) :
          out[i] = "&" => \E e \in Entities : StartsWith(Drop(out, i - 1), e)
    /\ out = EscapeEach(in)
    /\ Unescape(out) = in

\* C8: the result of xml_escape holds none of < > " ' raw, every & in it
\* starts one of the five entities, every character is escaped once, and
\* decoding the entities gives back the input; build_kml escapes the title
\* and the name and description of every placemark in this way.
C8_XmlEscape ==
    /\ fpc = "xml_escape" => EscapedText(arg, res)
    /\ fpc = "build_kml" =>
          /\ EscapedText(DocName(arg), res.name)
          /\ Len(res.body) = Len(KmlInput(arg))
          /\ \A i \in 1..Len(res.body) :
                /\ EscapedText(KmlInput(arg)[i].name, res.body[i].name)
                /\ EscapedText(KmlInput(arg)[i].desc, res.body[i].description)

C8_Witness ==
    /\ fpc = "xml_escape"
    /\ arg = <<"<", "&", "'", "t">>
    /\ res = LT \o AMP \o APOS \o <<"t">>

(***************************************************************************)
(* Properties of the scan.                                                 *)
(***************************************************************************)
\* the last iteration added a placemark for its file and counted it
LastYielded ==
    /\ LastTry.tag = "gps"
    /\ with_gps = last.before.with_gps + 1
    /\ skipped = last.before.skipped
    /\ Len(placemarks) = last.placemarksBefore + 1
    /\ placemarks[Len(placemarks)].name = LastFile.fname

\* an exception was raised while the last file was opened or decoded: in
\* the try block of get_exif_any, by open_heif, or in the try block of
\* extract_gps_from_piexif_bytes
LastRaised ==
    \/ LastTry.tag = "Raise"
    \/ LastTry.resolved.caught
    \/ LastTry.resolved.heifScanned /\ LastFile.heifRaises
    \/ LastTry.bytesRaised

\* C1: when an exception is raised while a candidate file is opened or
\* decoded, the iteration adds 1 to skipped and prints exactly one [WARN]
\* line naming the file on stderr.
C1_ExceptionWarned ==
    (pc = "walk" /\ LastValid /\ LastCandidate /\ LastRaised) =>
        /\ skipped = last.before.skipped + 1
        /\ Len(stderr) = last.stderrBefore + 1
        /\ stderr[Len(stderr)] = Line("WARN", RelPath(LastFile), 0, 0, 0)

\* the candidates among the files the walk has yielded
Candidates == {i \in 1..Len(log) : log[i].candidate}

\* C2: every file the walk yields is processed, whatever the outcome of the
\* files before it: total is the number of candidates seen, every candidate
\* adds 1 to exactly one of with_gps and skipped, a file that is not a
\* candidate changes no counter, and total = with_gps + skipped throughout.
C2_ScanContinues ==
    /\ total = Cardinality(Candidates)
    /\ total = with_gps + skipped
    /\ (pc = "exit" /\ exitCode # 3) => exitCode \in {0, 4, 5}
    /\ LastValid =>
          IF LastCandidate
          THEN /\ total = last.before.total + 1
               /\ \/ with_gps = last.before.with_gps + 1 /\ skipped = last.before.skipped
                  \/ with_gps = last.before.with_gps /\ skipped = last.before.skipped + 1
               /\ (with_gps = last.before.with_gps + 1) <=> (LastTry.tag = "gps")
          ELSE Counters = last.before

\* a file that fails to open after a file with a coordinate, both counted
C2_Witness ==
    /\ pc = "exit" /\ exitCode = 0
    /\ total = 2 /\ with_gps = 1 /\ skipped = 1
    /\ LastCandidate /\ LastFile.openRaises

\* C3: when the tag dictionary of an opened file yields a coordinate,
\* get_exif_any returns it without reading im.info and without scanning the
\* HEIF metadata, and main takes the coordinate from it without calling the
\* raw-bytes extractor.
C3_FastPath ==
    (/\ LastValid /\ LastCandidate /\ ~LastFile.openRaises
     /\ extract_gps_from_pil_exif(LastFile.exif) # NoGps) =>
        /\ ~LastTry.resolved.infoRead
        /\ ~LastTry.resolved.heifScanned
        /\ ~LastTry.resolved.raw
        /\ LastTry.resolved.exif = LastFile.exif
        /\ ~LastTry.bytesCalled
        /\ LastTry.gps = extract_gps_from_pil_exif(LastFile.exif)
        /\ LastYielded

\* a HEIC file with a coordinate in its tag dictionary and another one in
\* its raw blob and in its metadata blocks
C3_Witness ==
    /\ LastValid /\ LastCandidate
    /\ have_piexif /\ have_pillow_heif
    /\ LastFile.fname = HeicName
    /\ LastFile.exif = ExifDict("gps", PilA)
    /\ LastFile.infoExif = Blob("exif", RawA)
    /\ LastFile.metadata = MetaB
    /\ LastYielded
    /\ 2 * placemarks[Len(placemarks)].lat.v = 21 * Scale

\* a raw blob with a valid latitude and longitude: both triples convert and
\* both references are a bytes or missing
RawValid(b) ==
    /\ b.kind = "exif"
    /\ TripleConverts(b.gps.lat) /\ TripleConverts(b.gps.lon)
    /\ RefDecodes(b.gps.latRef) /\ RefDecodes(b.gps.lonRef)

NoGpsEntry(exif) == exif.kind \in {"empty", "noGPS"}

IsHeif(f) == Lower(Suffix(f.fname)) \in HEIF_EXTS

\* the file is a HEIC/HEIF file with an Exif-typed metadata block holding a
\* valid latitude and longitude
HeifBlockValid(f) ==
    /\ IsHeif(f)
    /\ f.metadata.kind = "list"
    /\ \E i \in 1..Len(f.metadata.blocks) :
          f.metadata.blocks[i].type = "Exif" /\ RawValid(f.metadata.blocks[i].data)

\* C4 as stated: a file whose tag dictionary has no GPS entry and whose raw
\* EXIF bytes (the "exif" entry of im.info or, for HEIC/HEIF, an Exif-typed
\* metadata block) hold a valid latitude and longitude yields a placemark
\* and is counted in with_gps.
C4_RawFallbackAlways ==
    (/\ LastValid /\ LastCandidate /\ ~LastFile.openRaises
     /\ NoGpsEntry(LastFile.exif)
     /\ (RawValid(LastFile.infoExif) \/ HeifBlockValid(LastFile))) =>
        LastYielded

\* the data of the first Exif-typed block with data
RECURSIVE FirstExifData(_)
FirstExifData(blocks) ==
    IF blocks = <<>> THEN NoBlob
    ELSE IF Head(blocks).type = "Exif" /\ Head(blocks).data.kind \notin {"None", "empty"}
         THEN Head(blocks).data
         ELSE FirstExifData(Tail(blocks))

\* the one blob the resolver obtains: the "exif" entry of im.info when it is
\* not empty; else, for a HEIC/HEIF file when pillow_heif is there and
\* open_heif does not raise, the first Exif-typed block with data
ObtainedBlob(f) ==
    IF f.infoExif.kind \notin {"None", "empty"} THEN f.infoExif
    ELSE IF IsHeif(f) /\ have_pillow_heif /\ ~f.heifRaises /\ f.metadata.kind = "list"
         THEN FirstExifData(f.metadata.blocks)
         ELSE NoBlob

\* C4: when piexif is there, a file whose tag dictionary has no GPS entry
\* and whose obtained blob holds a valid latitude and longitude yields a
\* placemark with the coordinate of that blob and is counted in with_gps.
C4_RawFallback ==
    (/\ LastValid /\ LastCandidate /\ ~LastFile.openRaises
     /\ NoGpsEntry(LastFile.exif)
     /\ have_piexif
     /\ RawValid(ObtainedBlob(LastFile))) =>
        /\ LastYielded
        /\ LastTry.bytesCalled
        /\ LastTry.gps.lat = dms_to_deg(ObtainedBlob(LastFile).gps.lat,
                                        DecodeRef(ObtainedBlob(LastFile).gps.latRef))
        /\ LastTry.gps.lon = dms_to_deg(ObtainedBlob(LastFile).gps.lon,
                                        DecodeRef(ObtainedBlob(LastFile).gps.lonRef))

\* a HEIC file without GPS entry and without "exif" in im.info, whose second
\* metadata block is the Exif block: 30 N, 10 W
C4_Witness ==
    /\ LastValid /\ LastCandidate
    /\ LastFile.fname = HeicName
    /\ LastFile.exif = ExifDict("noGPS", EmptyGps)
    /\ LastFile.infoExif = NoBlob
    /\ LastFile.metadata = MetaB
    /\ LastYielded
    /\ placemarks[Len(placemarks)].lat = Flt(30 * Scale)
    /\ placemarks[Len(placemarks)].lon = Flt(-10 * Scale)

\* C5: for a valid folder, when the scan ends without placemark, main
\* prints the message and the summary with the final counters on stderr,
\* builds and writes nothing and returns 4; it returns 0 only after the
\* output file is written.
C5_NoGeotagged ==
    /\ (pc = "exit") <=> (exitCode # -1)
    /\ ~writeAttempted => (~written /\ kml = NoKml)
    /\ (pc = "exit" /\ exitCode # 3) =>
          /\ exitCode \in {0, 4, 5}
          /\ (placemarks = <<>>) <=> (exitCode = 4)
          /\ exitCode = 4 =>
                /\ ~writeAttempted
                /\ stdout = <<>>
                /\ Len(stderr) >= 2
                /\ stderr[Len(stderr) - 1] = Line("NoGeotagged", <<>>, 0, 0, 0)
                /\ stderr[Len(stderr)] =
                       Line("Scanned", <<>>, Cardinality(Candidates), 0, Cardinality(Candidates))
          /\ exitCode = 0 => (writeAttempted /\ written /\ placemarks # <<>>)

\* two candidates, both skipped
C5_Witness ==
    /\ pc = "exit" /\ exitCode = 4
    /\ total = 2 /\ skipped = 2
    /\ ~writeAttempted

\* the placemarks of the files of a log that have a coordinate, in order
RECURSIVE PlacemarksOf(_)
PlacemarksOf(l) ==
    IF l = <<>> THEN <<>>
    ELSE (IF l[1].candidate /\ l[1].gps.tag = "gps"
          THEN <<Placemark(l[1].name, l[1].gps.lat, l[1].gps.lon, l[1].gps.alt, l[1].path)>>
          ELSE <<>>) \o PlacemarksOf(Tail(l))

\* C6: the placemarks are the records of the files with a coordinate, in
\* the order the walk yielded them; their number is with_gps; the KML holds
\* one Placemark element per record, in the same order.
C6_PlacemarkOrder ==
    /\ placemarks = PlacemarksOf(log)
    /\ Len(placemarks) = with_gps
    /\ LastValid =>
          Len(placemarks) = last.placemarksBefore
                               + (IF LastCandidate /\ LastTry.tag = "gps" THEN 1 ELSE 0)
    /\ writeAttempted =>
          /\ Len(kml.body) = Len(placemarks)
          /\ \A i \in 1..Len(placemarks) :
                /\ Unescape(kml.body[i].name) = placemarks[i].name
                /\ Unescape(kml.body[i].description) = placemarks[i].desc
                /\ kml.body[i].coordinates[1] = placemarks[i].lon
                /\ kml.body[i].coordinates[2] = placemarks[i].lat

\* two files with different names and coordinates, written in walk order
C6_Witness ==
    /\ pc = "exit" /\ exitCode = 0
    /\ Len(log) = 2
    /\ log[1].name = HeicName /\ log[2].name = JpgName
    /\ log[1].gps.lat # log[2].gps.lat
    /\ Len(kml.body) = 2
    /\ kml.body[1].name = xml_escape(HeicName) /\ kml.body[2].name = JpgName

\* C7: every recorded latitude is within -90..90 and every recorded
\* longitude within -180..180.
C7_CoordinateRange ==
    \A i \in 1..Len(placemarks) :
        /\ placemarks[i].lat.v >= -90 * Scale /\ placemarks[i].lat.v <= 90 * Scale
        /\ placemarks[i].lon.v >= -180 * Scale /\ placemarks[i].lon.v <= 180 * Scale

====
